---- MODULE Spec2Model ----
(***************************************************************************)
(* Playback session manager and mode/volume controller of the soundboard   *)
(* front end (src/public/app.js), as a state machine over the browser's    *)
(* event loop: every action is one task (an event handler or the           *)
(* continuation of an await) run to completion.  The offline cache (the    *)
(* download button of app.js and the service worker, src/public/sw.js) is  *)
(* modelled the same way over the two named caches.                        *)
(***************************************************************************)
EXTENDS Integers, Sequences, FiniteSets, TLC

\* ------------------------------------------------------------------ bounds
MaxCalls == 2          \* playSound calls (hence audio elements) per page load
MaxReqs == 2           \* download clicks and fetch events per run

Ids == {"A", "B"}      \* sound ids
Calls == 1..MaxCalls   \* the n-th playSound call creates audio element n
NoElem == 0            \* state.playing.get(id) === undefined

\* ------------------------------------------------------- strings and numbers
\* A string is a sequence of one-character strings.  Null is the value
\* localStorage.getItem gives for a key that was never written.
Null == <<"null">>
Digit == {"0", "1", "2", "3", "4", "5", "6", "7", "8", "9"}

\* TLC integers are 32 bits wide.  Huge stands for 10^21, the least integer
\* that Number::toString renders in exponent notation ("1e+21").
Huge == 1000000000
HugeString == <<"1","0","0","0","0","0","0","0","0","0","0",
                "0","0","0","0","0","0","0","0","0","0","0">>
HugeRendered == <<"1", "e", "+", "2", "1">>

DigitValue(c) ==
    CASE c = "0" -> 0 [] c = "1" -> 1 [] c = "2" -> 2 [] c = "3" -> 3
      [] c = "4" -> 4 [] c = "5" -> 5 [] c = "6" -> 6 [] c = "7" -> 7
      [] c = "8" -> 8 [] c = "9" -> 9

DigitChar(d) ==
    CASE d = 0 -> "0" [] d = 1 -> "1" [] d = 2 -> "2" [] d = 3 -> "3"
      [] d = 4 -> "4" [] d = 5 -> "5" [] d = 6 -> "6" [] d = 7 -> "7"
      [] d = 8 -> "8" [] d = 9 -> "9"

\* The longest prefix of s made of decimal digits.
RECURSIVE LeadingDigits(_)
LeadingDigits(s) ==
    IF s = <<>> \/ Head(s) \notin Digit THEN <<>>
    ELSE <<Head(s)>> \o LeadingDigits(Tail(s))

RECURSIVE DecimalValue(_, _)
DecimalValue(ds, acc) ==
    IF ds = <<>> THEN acc
    ELSE DecimalValue(Tail(ds), 10 * acc + DigitValue(Head(ds)))

\* parseInt(s, 10): an optional sign, then the leading digits; NaN (finite
\* FALSE) when there are none.  A run of 22 digits is read as Huge.
parseInt(s) ==
    LET neg  == s # <<>> /\ Head(s) = "-"
        body == IF s # <<>> /\ Head(s) \in {"-", "+"} THEN Tail(s) ELSE s
        ds   == LeadingDigits(body)
        mag  == IF Len(ds) >= Len(HugeString) THEN Huge ELSE DecimalValue(ds, 0)
    IN  IF ds = <<>> THEN [finite |-> FALSE, n |-> 0]
        ELSE [finite |-> TRUE, n |-> IF neg THEN 0 - mag ELSE mag]

RECURSIVE DecimalDigits(_)
DecimalDigits(n) ==
    IF n < 10 THEN <<DigitChar(n)>>
    ELSE DecimalDigits(n \div 10) \o <<DigitChar(n % 10)>>

\* String(n) for an integer-valued Number n.
NumberToString(n) ==
    LET mag == IF n < 0 THEN 0 - n ELSE n
        txt == IF mag >= Huge THEN HugeRendered ELSE DecimalDigits(mag)
    IN  IF n < 0 THEN <<"-">> \o txt ELSE txt

Min(a, b) == IF a < b THEN a ELSE b
Max(a, b) == IF a > b THEN a ELSE b

\* ------------------------------------------------------ volume persistence
\* Faulty variant: loadVolume without the clamp.
loadVolume_NoClamp(raw) ==
    LET txt == IF raw = Null \/ raw = <<>> THEN <<"1", "0", "0">> ELSE raw
        r   == parseInt(txt)
    IN  IF r.finite THEN r.n ELSE 100

\* loadVolume(): raw || "100" replaces null and the empty string.
loadVolume(raw) ==
    LET txt == IF raw = Null \/ raw = <<>> THEN <<"1", "0", "0">> ELSE raw
        r   == parseInt(txt)
    IN  IF r.finite THEN Min(200, Max(0, r.n)) ELSE 100

\* Faulty variant: saveVolume that drops the sign of the value it writes.
saveVolume_Unsigned(volumePercent_) ==
    NumberToString(IF volumePercent_ < 0 THEN 0 - volumePercent_ ELSE volumePercent_)

\* saveVolume(): the value written under STORAGE_KEYS.volume.
saveVolume(volumePercent_) == NumberToString(volumePercent_)


\* ---------------------------------------------------------------- inputs
\* Values the volume slider hands to its input handler: below the range,
\* inside it, above it, not a number, and 10^21.
SliderValues ==
    { <<"-", "5">>, <<"1", "5", "0">>, <<"2", "5", "0">>, <<>>,
      HugeString, <<"-">> \o HugeString }
\* What localStorage holds under STORAGE_KEYS.volume when the page first loads.
InitStorage == { Null, <<"a", "b", "c">>, <<"5", "0">> }

\* ----------------------------------------------------------------- state
VARIABLES
    chaos,          \* state.chaos
    loop,           \* state.loop
    volumePercent,  \* state.volumePercent
    playing,        \* state.playing: sound id -> audio element (NoElem: no entry)
    audioCtx,       \* "none" (null), or audioCtx.state: "suspended" | "running"
    gain,           \* gainNode.gain.value * 100; -1 while gainNode is null
    storage,        \* localStorage[STORAGE_KEYS.volume]
    toastMsg,       \* toastEl.textContent
    elems,          \* call n -> its position and its HTMLAudioElement
    ncalls          \* playSound calls made since the page loaded

\* The offline cache.
VARIABLES
    previews,       \* the cache "sound-previews-v1": path -> entry
    statics,        \* the cache "soundboard-static-v1": path -> entry
    puts,           \* cache.put calls nobody awaits, not yet written
    reqs,           \* request n -> its position and its locals
    nreqs           \* requests made

pvars == <<chaos, loop, volumePercent, playing, audioCtx, gain, storage,
           toastMsg, elems, ncalls>>
cvars == <<previews, statics, puts, reqs, nreqs>>
vars == <<chaos, loop, volumePercent, playing, audioCtx, gain, storage,
          toastMsg, elems, ncalls, previews, statics, puts, reqs, nreqs>>

\* ------------------------------------------------------- paths and caches
RECURSIVE StartsWith(_, _)
\* String.prototype.startsWith
StartsWith(str, pre) ==
    \/ pre = <<>>
    \/ /\ str # <<>>
       /\ Head(str) = Head(pre)
       /\ StartsWith(Tail(str), Tail(pre))
\* String.prototype.endsWith
EndsWith(str, suf) ==
    /\ Len(str) >= Len(suf)
    /\ SubSeq(str, Len(str) - Len(suf) + 1, Len(str)) = suf

PathRoot == <<"/">>
PathIndex == <<"/", "i", "n", "d", "e", "x", ".", "h", "t", "m", "l">>
PathStyles == <<"/", "s", "t", "y", "l", "e", "s", ".", "c", "s", "s">>
PathApp == <<"/", "a", "p", "p", ".", "j", "s">>
PathPreview == <<"/", "a", "p", "i", "/", "s", "o", "u", "n", "d", "/", "7", "/", "p", "r", "e", "v", "i", "e", "w">>
PathPopular == <<"/", "a", "p", "i", "/", "p", "o", "p", "u", "l", "a", "r">>
\* The requests the page makes: its own documents, scripts, styles, API
\* calls and previews, and loads from other origins.
Requests ==
    [path : {PathRoot, PathIndex, PathStyles, PathApp, PathPreview, PathPopular},
     sameOrigin : {TRUE}]
    \cup [path : {PathRoot, PathPreview}, sameOrigin : {FALSE}]

\* sw.js, STATIC_ASSETS
STATIC_ASSETS ==
    { <<".", "/">>, <<".", "/", "i", "n", "d", "e", "x", ".", "h", "t", "m", "l">>,
      <<".", "/", "s", "t", "y", "l", "e", "s", ".", "c", "s", "s">>, <<".", "/", "a", "p", "p", ".", "j", "s">> }
\* The path a member of STATIC_ASSETS names, resolved against the worker's
\* own URL (/sw.js), as cache.addAll does.
ResolvePath(rel) == Tail(rel)
StaticKeys == { ResolvePath(rel) : rel \in STATIC_ASSETS }
\* app.js, previewUrlFor(id)
PreviewKeys == {PathPreview}

\* A response: where it came from ("net", "cache", "synthetic", "error" for
\* a fetch that rejected), its status, and its body, named by the fetch
\* that brought it from the server (0: the worker's install).  NoResp is
\* undefined.
NoResp == [src |-> "none", status |-> 0, body |-> 0]
NetResp(status, body) == [src |-> "net", status |-> status, body |-> body]
NetError == [src |-> "error", status |-> 0, body |-> 0]
\* new Response("Offline...", { status: 503 })
Unavailable == [src |-> "synthetic", status |-> 503, body |-> 0]
\* Response.ok
Ok(res) == res.status >= 200 /\ res.status <= 299
\* The copy of a response a cache holds and cache.match gives back.
AsEntry(res) == [res EXCEPT !.src = "cache"]
\* cache.match(request): the entry, or undefined.
\* Faulty variant: a match that never finds the entry.
Lookup_Miss(tier, path) == NoResp
Lookup(tier, path) == IF path \in DOMAIN tier THEN tier[path] ELSE NoResp
\* cache.put(request, response) once written.
Store(tier, path, res) ==
    [k \in DOMAIN tier \cup {path} |-> IF k = path THEN AsEntry(res) ELSE tier[k]]

\* What the network gives for a fetch: the server's answer (200, 206 to a
\* range request, 404) or no answer.
Outcomes == {"200", "206", "404", "fail"}
Fetched(outcome, r) ==
    CASE outcome = "200" -> NetResp(200, r)
      [] outcome = "206" -> NetResp(206, r)
      [] outcome = "404" -> NetResp(404, r)
      [] OTHER -> NetError

\* Request n before it is made.  kind: "dl" (click on the download button),
\* "cf" (cacheFirst), "swr" (staleWhileRevalidate), "pass" (the worker does
\* not respond).  client: the download click whose fetch the worker got, 0
\* for a load by the page itself.  hit: what cache.match gave.  out: the
\* response the caller got.  result: how the download click ended.
NoReq ==
    [kind |-> "none", path |-> <<>>, sameOrigin |-> TRUE, pc |-> "unused",
     client |-> 0, hit |-> NoResp, out |-> NoResp, result |-> "none"]
Reqs == 1..MaxReqs

CacheInit ==
    /\ previews = [k \in PreviewKeys |-> NoResp]
    /\ statics = [k \in StaticKeys |-> NoResp]
    /\ puts = {}
    /\ reqs = [r \in Reqs |-> NoReq]
    /\ nreqs = 0

\* Call n before it is made.  pc: "unused" | "resume" (suspended at
\* await audioCtx.resume()) | "await" (suspended at await audio.play()) | "done".
\* promise (of audio.play()): "none" | "pending" | "resolving" | "rejecting"
\* (settled, the task that delivers it queued) | "fulfilled" | "rejected"
\* (the continuation ran).  err: what a "rejecting" promise is rejected with.
NoAudio ==
    [pc |-> "unused", id |-> "-", loop |-> FALSE, paused |-> TRUE, time |-> 0,
     ended |-> FALSE, endedQ |-> FALSE, promise |-> "none", err |-> "none",
     routed |-> FALSE]

\* new Audio(url): paused, at position zero, not looping, not routed.
NewAudio(id) == [NoAudio EXCEPT !.id = id]

\* The element is producing sound.
Sounding(a) == a.promise \in {"resolving", "fulfilled"} /\ ~a.paused /\ ~a.ended

\* An element the page can no longer be affected by: its call has returned,
\* state.playing does not hold it, no event of it is queued and it is silent.
\* The runtime reclaims it; Collected stands for every such element.
Collected == [NoAudio EXCEPT !.pc = "done"]
Live(pl, e, a) ==
    \/ a.pc # "done"
    \/ \E id \in DOMAIN pl : pl[id] = e
    \/ a.endedQ
    \/ Sounding(a)
Collect(pl, es) ==
    [e \in DOMAIN es |-> IF Live(pl, e, es[e]) THEN es[e] ELSE Collected]

\* state.playing.has(id) / isPlaying(id)
isPlaying(pl, id) == pl[id] # NoElem
\* state.playing.values()
Tracked(pl) == { pl[id] : id \in Ids } \ {NoElem}

\* ------------------------------------------------------ media element API
\* audio.pause(): sets paused; a pending play() promise is rejected with
\* AbortError (the rejection is delivered in a later task).
Pause(a) ==
    IF a.paused THEN a
    ELSE [a EXCEPT !.paused = TRUE,
                   !.promise = IF @ = "pending" THEN "rejecting" ELSE @,
                   !.err = IF a.promise = "pending" THEN "AbortError" ELSE @]

\* audio.currentTime = 0: seeks to the start; a seek clears ended.
SeekStart(a) == [a EXCEPT !.time = 0, !.ended = FALSE]

\* ------------------------------------------------------------ audio init
\* ensureAudio(): creates the context and the gain stage once.  s is the state
\* the browser gives a new AudioContext.
EnsureCtx(ctx, s) == IF ctx # "none" THEN ctx ELSE s
\* Faulty variant: a gain stage created at gain 1 whatever the volume.
EnsureGain_Unit(ctx, g, vp) == IF ctx # "none" THEN g ELSE 100
EnsureGain(ctx, g, vp) == IF ctx # "none" THEN g ELSE vp

\* routeAudioElement(audioEl)
routeAudioElement(a) == IF a.routed THEN a ELSE [a EXCEPT !.routed = TRUE]

\* ------------------------------------------------------- playback control
\* Faulty variant: stopAll that leaves alone the sessions whose start is pending.
stopAll_SkipPending(pl, es) ==
    [playing |-> [id \in Ids |->
                    IF pl[id] # NoElem /\ es[pl[id]].promise = "pending"
                    THEN pl[id] ELSE NoElem],
     elems   |-> [e \in Calls |->
                    IF e \in Tracked(pl) /\ es[e].promise # "pending"
                    THEN SeekStart(Pause(es[e])) ELSE es[e]]]

\* stopAll(): every element in state.playing is paused and rewound, and its
\* entry deleted.
stopAll(pl, es) ==
    [playing |-> [id \in Ids |-> NoElem],
     elems   |-> [e \in Calls |->
                    IF e \in Tracked(pl) THEN SeekStart(Pause(es[e])) ELSE es[e]]]

\* Faulty variant: playSound without the single-sound-mode stop.
StopOthers_Never(ch, pl, es) == [playing |-> pl, elems |-> es]

\* playSound, lines 316-319: single sound mode.
StopOthers(ch, pl, es) ==
    IF ~ch THEN stopAll(pl, es) ELSE [playing |-> pl, elems |-> es]

\* playSound, lines 321-331: an element already playing this id is stopped.
RestartExisting(st, id) ==
    LET existing == st.playing[id]
    IN  IF existing # NoElem
        THEN [playing |-> [st.playing EXCEPT ![id] = NoElem],
              elems   |-> [st.elems EXCEPT ![existing] = SeekStart(Pause(@))]]
        ELSE st

\* Faulty variant: playSound that registers its element once play() has fulfilled.
onPlayFulfilled_Register(pl, n, id) == [pl EXCEPT ![id] = n]

\* Faulty variant: a catch block that forgets to delete the entry.
onPlayRejected_Keep(pl, n, id) == pl

\* playSound, after await audio.play() fulfilled: nothing is left to do.
onPlayFulfilled(pl, n, id) == pl

\* playSound, lines 359-364: the catch block.
onPlayRejected(pl, n, id) == [pl EXCEPT ![id] = NoElem]

\* playSound, lines 333-358: the new element is created, routed, registered
\* and asked to play.  allowed: whether the browser lets play() start.  When
\* it does not, play() returns a promise already rejected with
\* NotAllowedError, the element stays paused, and the catch block runs as a
\* microtask of this same task.
StartAudio(st, n, id, lp, allowed) ==
    LET a == routeAudioElement([NewAudio(id) EXCEPT !.loop = lp])
        reg == [st.playing EXCEPT ![id] = n]
    IN  IF allowed
        THEN [playing |-> reg,
              elems   |-> [st.elems EXCEPT ![n] =
                             [a EXCEPT !.pc = "await", !.paused = FALSE,
                                       !.promise = "pending"]],
              blocked |-> FALSE]
        ELSE [playing |-> onPlayRejected(reg, n, id),
              elems   |-> [st.elems EXCEPT ![n] =
                             [a EXCEPT !.pc = "done", !.promise = "rejected"]],
              blocked |-> TRUE]

\* playSound from line 314 to its suspension at await audio.play().
playSoundBody(ch, lp, pl, es, n, id, allowed) ==
    StartAudio(RestartExisting(StopOthers(ch, pl, es), id), n, id, lp, allowed)

BlockedToast == "Playback blocked (click anywhere then try again)"

\* The "ended" listener, lines 338-344.
onEnded(pl, a) == IF ~a.loop THEN [pl EXCEPT ![a.id] = NoElem] ELSE pl

\* Faulty variant: a loop toggle that leaves the playing elements alone.
applyLoop_None(pl, es, lp) == es

\* The loop button's listener, line 411.
applyLoop(pl, es, lp) ==
    [e \in Calls |-> IF e \in Tracked(pl) THEN [es[e] EXCEPT !.loop = lp] ELSE es[e]]

\* ------------------------------------------------------------------ Init
\* State after the script has run: init() has read the persisted volume.
Init ==
    /\ storage \in InitStorage
    /\ chaos = FALSE
    /\ loop = FALSE
    /\ volumePercent = loadVolume(storage)
    /\ playing = [id \in Ids |-> NoElem]
    /\ audioCtx = "none"
    /\ gain = -1
    /\ toastMsg = ""
    /\ elems = [e \in Calls |-> NoAudio]
    /\ ncalls = 0
    /\ CacheInit

\* --------------------------------------------------------------- actions
\* A click on a tile's play button: playSound up to its first suspension.
\* s: the state of a newly created AudioContext; allowed: see StartAudio.
PlayClick(id, s, allowed) ==
    LET n   == ncalls + 1
        ctx == EnsureCtx(audioCtx, s)
        st  == playSoundBody(chaos, loop, playing, elems, n, id, allowed)
    IN  /\ ncalls < MaxCalls
        /\ ncalls' = n
        /\ audioCtx' = ctx
        /\ gain' = EnsureGain(audioCtx, gain, volumePercent)
        /\ IF ctx = "suspended"
           THEN /\ elems' = [elems EXCEPT ![n] = [NoAudio EXCEPT !.pc = "resume", !.id = id]]
                /\ UNCHANGED <<playing, toastMsg>>
           ELSE /\ playing' = st.playing
                /\ elems' = Collect(st.playing, st.elems)
                /\ toastMsg' = IF st.blocked THEN BlockedToast ELSE toastMsg
        /\ UNCHANGED <<chaos, loop, volumePercent, storage>>
        /\ UNCHANGED cvars

\* await audioCtx.resume().catch(() => {}) settles: the context runs (resume()
\* was called in a click handler) and call n goes on to its suspension at
\* await audio.play().
ResumeSettled(n, allowed) ==
    LET st == playSoundBody(chaos, loop, playing, elems, n, elems[n].id, allowed)
    IN  /\ elems[n].pc = "resume"
        /\ audioCtx' = "running"
        /\ playing' = st.playing
        /\ elems' = Collect(st.playing, st.elems)
        /\ toastMsg' = IF st.blocked THEN BlockedToast ELSE toastMsg
        /\ UNCHANGED <<chaos, loop, volumePercent, gain, storage, ncalls>>
        /\ UNCHANGED cvars

\* The browser starts playback of element e: its play() promise is resolved.
BrowserStart(e) ==
    /\ elems[e].promise = "pending"
    /\ elems' = [elems EXCEPT ![e].promise = "resolving"]
    /\ UNCHANGED <<chaos, loop, volumePercent, playing, audioCtx, gain, storage, toastMsg, ncalls>>
    /\ UNCHANGED cvars

\* The browser fails to load element e's source: its play() promise is
\* rejected with NotSupportedError.
BrowserFail(e) ==
    /\ elems[e].promise = "pending"
    /\ elems' = [elems EXCEPT ![e].promise = "rejecting", ![e].err = "NotSupportedError"]
    /\ UNCHANGED <<chaos, loop, volumePercent, playing, audioCtx, gain, storage, toastMsg, ncalls>>
    /\ UNCHANGED cvars

\* Call e resumes after await audio.play() fulfilled.
PlayResolved(e) ==
    /\ elems[e].promise = "resolving"
    /\ playing' = onPlayFulfilled(playing, e, elems[e].id)
    /\ elems' = Collect(playing', [elems EXCEPT ![e].promise = "fulfilled", ![e].pc = "done"])
    /\ UNCHANGED <<chaos, loop, volumePercent, audioCtx, gain, storage, toastMsg, ncalls>>
    /\ UNCHANGED cvars

\* Call e resumes in its catch block after await audio.play() rejected.
PlayRejected(e) ==
    /\ elems[e].promise = "rejecting"
    /\ playing' = onPlayRejected(playing, e, elems[e].id)
    /\ elems' = Collect(playing', [elems EXCEPT ![e].promise = "rejected", ![e].pc = "done",
                                                ![e].err = "none"])
    /\ toastMsg' = BlockedToast
    /\ UNCHANGED <<chaos, loop, volumePercent, audioCtx, gain, storage, ncalls>>
    /\ UNCHANGED cvars

\* Playback of element e moves past position zero.  The task that resolves
\* play() was queued when playback began, so it has run by then.
Advance(e) ==
    /\ Sounding(elems[e])
    /\ elems[e].promise = "fulfilled"
    /\ elems[e].time = 0
    /\ elems' = [elems EXCEPT ![e].time = 1]
    /\ UNCHANGED <<chaos, loop, volumePercent, playing, audioCtx, gain, storage, toastMsg, ncalls>>
    /\ UNCHANGED cvars

\* Playback of element e reaches the end of the stream: a looping element
\* seeks back to the start, any other has ended and its "ended" event is
\* queued.
ReachEnd(e) ==
    /\ Sounding(elems[e])
    /\ elems[e].promise = "fulfilled"
    /\ elems[e].time = 1
    /\ elems' = IF elems[e].loop
                THEN [elems EXCEPT ![e].time = 0]
                ELSE [elems EXCEPT ![e].ended = TRUE, ![e].endedQ = TRUE]
    /\ UNCHANGED <<chaos, loop, volumePercent, playing, audioCtx, gain, storage, toastMsg, ncalls>>
    /\ UNCHANGED cvars

\* The queued task of element e runs: an element that is still ended is
\* paused, then the "ended" listener runs.
EndedEvent(e) ==
    /\ elems[e].endedQ
    /\ playing' = onEnded(playing, elems[e])
    /\ elems' = Collect(playing', [elems EXCEPT ![e].endedQ = FALSE,
                                 ![e].paused = IF elems[e].ended THEN TRUE ELSE @])
    /\ UNCHANGED <<chaos, loop, volumePercent, audioCtx, gain, storage, toastMsg, ncalls>>
    /\ UNCHANGED cvars

\* chaosBtn click
ChaosClick ==
    /\ chaos' = ~chaos
    /\ toastMsg' = IF chaos' THEN "Chaos: ON" ELSE "Chaos: OFF"
    /\ UNCHANGED <<loop, volumePercent, playing, audioCtx, gain, storage, elems, ncalls>>
    /\ UNCHANGED cvars

\* loopBtn click
LoopClick ==
    /\ loop' = ~loop
    /\ elems' = applyLoop(playing, elems, loop')
    /\ toastMsg' = IF loop' THEN "Loop: ON" ELSE "Loop: OFF"
    /\ UNCHANGED <<chaos, volumePercent, playing, audioCtx, gain, storage, ncalls>>
    /\ UNCHANGED cvars

\* stopBtn click
StopClick ==
    /\ playing' = stopAll(playing, elems).playing
    /\ elems' = Collect(playing', stopAll(playing, elems).elems)
    /\ toastMsg' = "Stopped"
    /\ UNCHANGED <<chaos, loop, volumePercent, audioCtx, gain, storage, ncalls>>
    /\ UNCHANGED cvars

\* nextPage click, prevPage click past page 1, or the search debounce firing:
\* each calls stopAll() before loading the list.
ListChange ==
    /\ playing' = stopAll(playing, elems).playing
    /\ elems' = Collect(playing', stopAll(playing, elems).elems)
    /\ UNCHANGED <<chaos, loop, volumePercent, audioCtx, gain, storage, toastMsg, ncalls>>
    /\ UNCHANGED cvars

\* volumeSlider input, the slider's value being the string val.
VolumeInput(val, s) ==
    LET v  == parseInt(val)
        vp == IF v.finite THEN v.n ELSE 100
    IN  /\ volumePercent' = vp
        /\ audioCtx' = EnsureCtx(audioCtx, s)
        /\ gain' = vp
        /\ storage' = saveVolume(vp)
        /\ UNCHANGED <<chaos, loop, playing, toastMsg, elems, ncalls>>
        /\ UNCHANGED cvars

\* The page is loaded again: the script's state is rebuilt, localStorage
\* and the caches are what they were.
Reload ==
    /\ chaos' = FALSE
    /\ loop' = FALSE
    /\ volumePercent' = loadVolume(storage)
    /\ playing' = [id \in Ids |-> NoElem]
    /\ audioCtx' = "none"
    /\ gain' = -1
    /\ toastMsg' = ""
    /\ elems' = [e \in Calls |-> NoAudio]
    /\ ncalls' = 0
    /\ UNCHANGED storage
    /\ UNCHANGED cvars

\* --------------------------------------------------- the offline cache
\* sw.js, the fetch listener: which strategy answers the request.
Route(sameOrigin, path) ==
    IF ~sameOrigin THEN "pass"
    ELSE IF StartsWith(path, <<"/", "a", "p", "i", "/", "s", "o", "u", "n", "d", "/">>)
            /\ EndsWith(path, <<"/", "p", "r", "e", "v", "i", "e", "w">>) THEN "cf"
    ELSE IF path \in STATIC_ASSETS \/ path = PathRoot THEN "swr"
    ELSE "pass"

\* The cache a request works on.
TierOf(rq) == IF rq.kind = "swr" THEN statics ELSE previews
TierName(rq) == IF rq.kind = "swr" THEN "static" ELSE "preview"

\* A click on a card's download button: isCached(url) is called.
DlClick ==
    /\ nreqs < MaxReqs
    /\ nreqs' = nreqs + 1
    /\ reqs' = [reqs EXCEPT ![nreqs + 1] =
           [NoReq EXCEPT !.kind = "dl", !.path = PathPreview,
                         !.pc = "isCached:match"]]
    /\ UNCHANGED <<previews, statics, puts>>
    /\ UNCHANGED pvars

\* The page loads a resource (audio element, navigation, script, XHR): the
\* worker's fetch listener runs.  When it returns without respondWith the
\* browser loads the resource itself and the worker is done.
FetchEvent(path, sameOrigin) ==
    /\ nreqs < MaxReqs
    /\ nreqs' = nreqs + 1
    /\ LET kind == Route(sameOrigin, path)
       IN reqs' = [reqs EXCEPT ![nreqs + 1] =
              [NoReq EXCEPT !.kind = kind, !.path = path,
                            !.sameOrigin = sameOrigin,
                            !.pc = IF kind = "pass" THEN "done" ELSE "sw:match"]]
    /\ UNCHANGED <<previews, statics, puts>>
    /\ UNCHANGED pvars

\* cache.match reads the cache; the caller resumes in a later task.
CacheMatch(r) ==
    /\ reqs[r].pc \in {"isCached:match", "cacheSoundPreview:match", "sw:match"}
    /\ reqs' = [reqs EXCEPT
           ![r].hit = Lookup(TierOf(reqs[r]), reqs[r].path),
           ![r].pc = CASE reqs[r].pc = "isCached:match" -> "isCached:resume"
                       [] reqs[r].pc = "cacheSoundPreview:match" -> "cacheSoundPreview:resume"
                       [] OTHER -> "sw:resume"]
    /\ UNCHANGED <<previews, statics, puts, nreqs>>
    /\ UNCHANGED pvars

\* The click handler after `await isCached(url)`.
DlAfterIsCached(r) ==
    /\ reqs[r].pc = "isCached:resume"
    /\ IF reqs[r].hit # NoResp
       THEN /\ reqs' = [reqs EXCEPT ![r].pc = "done", ![r].result = "skipped"]
            /\ toastMsg' = "You've already downloaded this sound!"
       ELSE /\ reqs' = [reqs EXCEPT ![r].pc = "cacheSoundPreview:match"]
            /\ UNCHANGED toastMsg
    /\ UNCHANGED <<previews, statics, puts, nreqs>>
    /\ UNCHANGED <<chaos, loop, volumePercent, playing, audioCtx, gain, storage, elems, ncalls>>

\* cacheSoundPreview after `await cache.match(url)`: "already", or
\* fetch(url), which the worker gets when it controls the page.
DlAfterExisting(r, controlled) ==
    /\ reqs[r].pc = "cacheSoundPreview:resume"
    /\ IF reqs[r].hit # NoResp
       THEN /\ reqs' = [reqs EXCEPT ![r].pc = "done", ![r].result = "already"]
            /\ toastMsg' = "You've already downloaded this sound!"
            /\ UNCHANGED nreqs
       ELSE IF controlled /\ nreqs < MaxReqs
       THEN /\ reqs' = [reqs EXCEPT
                   ![r].pc = "intercepted",
                   ![nreqs + 1] =
                       [NoReq EXCEPT !.kind = Route(TRUE, reqs[r].path),
                                     !.path = reqs[r].path,
                                     !.client = r,
                                     !.pc = "sw:match"]]
            /\ nreqs' = nreqs + 1
            /\ UNCHANGED toastMsg
       ELSE /\ reqs' = [reqs EXCEPT ![r].pc = "fetch"]
            /\ UNCHANGED <<nreqs, toastMsg>>
    /\ UNCHANGED <<previews, statics, puts>>
    /\ UNCHANGED <<chaos, loop, volumePercent, playing, audioCtx, gain, storage, elems, ncalls>>

\* cacheSoundPreview after `await fetch(url)` gave res (or threw).
DlGot(r, res) ==
    IF Ok(res)
    THEN /\ reqs' = [reqs EXCEPT ![r].pc = "put", ![r].out = res]
         /\ UNCHANGED toastMsg
    ELSE /\ reqs' = [reqs EXCEPT ![r].pc = "done", ![r].out = res,
                                 ![r].result = "threw"]
         /\ toastMsg' = "Cache failed"

\* The network answers the page's own fetch.
DlNet(r, outcome) ==
    /\ reqs[r].kind = "dl"
    /\ reqs[r].pc = "fetch"
    /\ outcome # "206"
    /\ DlGot(r, Fetched(outcome, r))
    /\ UNCHANGED <<previews, statics, puts, nreqs>>
    /\ UNCHANGED <<chaos, loop, volumePercent, playing, audioCtx, gain, storage, elems, ncalls>>

\* The worker answers the page's fetch.
DlAnswered(r) ==
    /\ reqs[r].pc = "intercepted"
    /\ \E c \in Reqs :
          /\ reqs[c].client = r
          /\ reqs[c].out # NoResp
          /\ DlGot(r, reqs[c].out)
    /\ UNCHANGED <<previews, statics, puts, nreqs>>
    /\ UNCHANGED <<chaos, loop, volumePercent, playing, audioCtx, gain, storage, elems, ncalls>>

\* cacheSoundPreview: `await cache.put(url, res.clone())` writes the entry,
\* then "cached" is returned to the click handler.
DlPut(r) ==
    /\ reqs[r].pc = "put"
    /\ previews' = Store(previews, reqs[r].path, reqs[r].out)
    /\ reqs' = [reqs EXCEPT ![r].pc = "done", ![r].result = "cached"]
    /\ toastMsg' = "Cached for offline"
    /\ UNCHANGED <<statics, puts, nreqs>>
    /\ UNCHANGED <<chaos, loop, volumePercent, playing, audioCtx, gain, storage, elems, ncalls>>

\* sw.js: `if (fresh && fresh.ok) cache.put(request, fresh.clone())`.
\* Faulty variant: every answer is stored.
StoresFresh_Always(fresh) == fresh # NetError
StoresFresh(fresh) == fresh # NetError /\ Ok(fresh)

\* cacheFirst's catch block.
\* Faulty variant: the error is passed on.
cacheFirstCaught_Rethrow == NetError
cacheFirstCaught == Unavailable

\* staleWhileRevalidate: `cached || (await fetchPromise) || new Response(...)`
\* where a failed fetch has become null.
\* Faulty variant: the cached copy is not used.
swrReturned_IgnoreCached(cached, fresh) ==
    IF fresh # NoResp /\ fresh # NetError THEN fresh ELSE Unavailable
swrReturned(cached, fresh) ==
    IF cached # NoResp THEN cached
    ELSE IF fresh # NoResp /\ fresh # NetError THEN fresh
    ELSE Unavailable

\* Cache.put rejects a partial (206) response.
PutAccepts(res) == res.status # 206

\* cacheFirst / staleWhileRevalidate after `await cache.match(request)`.
SwAfterMatch(r) ==
    /\ reqs[r].pc = "sw:resume"
    /\ LET rq == reqs[r]
       IN IF rq.kind = "cf"
          THEN IF rq.hit # NoResp
               THEN reqs' = [reqs EXCEPT ![r].pc = "done", ![r].out = rq.hit]
               ELSE reqs' = [reqs EXCEPT ![r].pc = "fetch"]
          ELSE IF rq.hit # NoResp
               THEN reqs' = [reqs EXCEPT ![r].pc = "bg",
                                         ![r].out = swrReturned(rq.hit, NoResp)]
               ELSE reqs' = [reqs EXCEPT ![r].pc = "fetch"]
    /\ UNCHANGED <<previews, statics, puts, nreqs>>
    /\ UNCHANGED pvars

\* The network answers a fetch made by the worker.
SwNet(r, outcome) ==
    /\ reqs[r].kind \in {"cf", "swr"}
    /\ reqs[r].pc \in {"fetch", "bg"}
    /\ outcome = "206" => reqs[r].path = PathPreview /\ reqs[r].client = 0
    /\ LET rq == reqs[r]
           fresh == Fetched(outcome, r)
       IN /\ puts' = IF StoresFresh(fresh)
                     THEN puts \cup {[tier |-> TierName(rq), path |-> rq.path,
                                      res |-> fresh]}
                     ELSE puts
          /\ reqs' = [reqs EXCEPT
                 ![r].pc = "done",
                 ![r].out = CASE rq.pc = "bg" -> rq.out
                              [] rq.kind = "cf" ->
                                    IF fresh = NetError THEN cacheFirstCaught
                                    ELSE fresh
                              [] OTHER -> swrReturned(NoResp, fresh)]
    /\ UNCHANGED <<previews, statics, nreqs>>
    /\ UNCHANGED pvars

\* A cache.put nobody awaited is written, or rejects.
PutCommit(p) ==
    /\ p \in puts
    /\ puts' = puts \ {p}
    /\ IF ~PutAccepts(p.res)
       THEN UNCHANGED <<previews, statics>>
       ELSE IF p.tier = "static"
       THEN statics' = Store(statics, p.path, p.res) /\ UNCHANGED previews
       ELSE previews' = Store(previews, p.path, p.res) /\ UNCHANGED statics
    /\ UNCHANGED <<reqs, nreqs>>
    /\ UNCHANGED pvars

\* The worker's install event: cache.addAll(STATIC_ASSETS) writes all the
\* assets, or none when one of them cannot be fetched.
Install(allOk) ==
    /\ statics' = IF allOk
                  THEN [k \in DOMAIN statics \cup StaticKeys |->
                           IF k \in StaticKeys
                           THEN AsEntry(NetResp(200, 0))
                           ELSE statics[k]]
                  ELSE statics
    /\ UNCHANGED <<previews, puts, reqs, nreqs>>
    /\ UNCHANGED pvars

\* Tasks of the playback session manager.
PlaybackNext ==
    \/ \E id \in Ids, s \in {"suspended", "running"}, allowed \in BOOLEAN :
          PlayClick(id, s, allowed)
    \/ \E n \in Calls, allowed \in BOOLEAN : ResumeSettled(n, allowed)
    \/ \E e \in Calls : BrowserStart(e)
    \/ \E e \in Calls : BrowserFail(e)
    \/ \E e \in Calls : PlayResolved(e)
    \/ \E e \in Calls : PlayRejected(e)
    \/ \E e \in Calls : Advance(e)
    \/ \E e \in Calls : ReachEnd(e)
    \/ \E e \in Calls : EndedEvent(e)
    \/ StopClick
    \/ ListChange

\* The mode toggles.
ModeNext ==
    \/ ChaosClick
    \/ LoopClick

\* The volume slider.
VolumeNext ==
    \E val \in SliderValues, s \in {"suspended", "running"} : VolumeInput(val, s)

\* A first visit: nothing is stored under STORAGE_KEYS.volume.
InitFresh == Init /\ storage = Null

\* The playback session manager under the mode toggles and page reloads.
\* The volume slider is left out: no playback task reads volumePercent,
\* gain or storage beyond copying volumePercent into gain.
Next == PlaybackNext \/ ModeNext \/ Reload
Spec == InitFresh /\ [][Next]_vars

\* The session manager with chaos never switched on.
NextNoChaos == PlaybackNext \/ LoopClick \/ Reload
SpecNoChaos == InitFresh /\ [][NextNoChaos]_vars

\* The session manager with every stop-all trigger but playSound's own left
\* out: sessions are removed by playSound and by callbacks alone.
StartNext ==
    \/ \E id \in Ids, s \in {"suspended", "running"}, allowed \in BOOLEAN :
          PlayClick(id, s, allowed)
    \/ \E n \in Calls, allowed \in BOOLEAN : ResumeSettled(n, allowed)
    \/ \E e \in Calls : BrowserStart(e)
    \/ \E e \in Calls : BrowserFail(e)
    \/ \E e \in Calls : PlayResolved(e)
    \/ \E e \in Calls : PlayRejected(e)
    \/ \E e \in Calls : Advance(e)
    \/ \E e \in Calls : ReachEnd(e)
    \/ \E e \in Calls : EndedEvent(e)
NextRestart == StartNext \/ ModeNext
SpecRestart == InitFresh /\ [][NextRestart]_vars

\* stopBtn click while a playSound call waits for audioCtx.resume().
StopWhileSuspended ==
    /\ \E n \in Calls : elems[n].pc = "resume"
    /\ StopClick

\* Playback where the stop button is pressed only while a call is suspended
\* at its first await.
NextStopWhileSuspended == StartNext \/ StopWhileSuspended \/ Reload
SpecStopWhileSuspended == InitFresh /\ [][NextStopWhileSuspended]_vars

\* Playback with the volume slider and page reloads: the shared gain stage.
NextGain == StartNext \/ VolumeNext \/ Reload
SpecGain == InitFresh /\ [][NextGain]_vars

\* The offline cache alone.
CacheNext ==
    \/ DlClick
    \/ \E q \in Requests : FetchEvent(q.path, q.sameOrigin)
    \/ \E r \in Reqs : CacheMatch(r)
    \/ \E r \in Reqs : DlAfterIsCached(r)
    \/ \E r \in Reqs, controlled \in BOOLEAN : DlAfterExisting(r, controlled)
    \/ \E r \in Reqs, outcome \in Outcomes : DlNet(r, outcome)
    \/ \E r \in Reqs : DlAnswered(r)
    \/ \E r \in Reqs : DlPut(r)
    \/ \E r \in Reqs : SwAfterMatch(r)
    \/ \E r \in Reqs, outcome \in Outcomes : SwNet(r, outcome)
    \/ \E p \in puts : PutCommit(p)
    \/ \E allOk \in BOOLEAN : Install(allOk)
SpecCache == InitFresh /\ [][CacheNext]_vars

\* The mode/volume controller and its persistence, with no sound played.
NextVolume == ModeNext \/ VolumeNext \/ Reload
SpecVolume == Init /\ [][NextVolume]_vars

\* ================================================================ claims
Sessions(pl) == Cardinality(Tracked(pl))
Clamp200(v) == IF v < 0 THEN 0 ELSE IF v > 200 THEN 200 ELSE v
\* The step is a playSound call reaching line 314 (directly or after its
\* first await).
PlaySoundStep ==
    \E n \in Calls : elems[n].pc \in {"unused", "resume"} /\ elems'[n].pc \in {"await", "done"}

\* C1: with chaos never switched on, state.playing holds at most one session
\* between any two tasks.
C1_AtMostOneSession == Sessions(playing) <= 1
\* Call 2 (sound B) has stopped call 1 (sound A) while its start was pending.
C1_Witness ==
    /\ ~chaos
    /\ playing["B"] = 2 /\ playing["A"] = NoElem
    /\ elems[1].id = "A" /\ elems[1].promise = "rejecting" /\ elems[1].err = "AbortError"

\* C2 as stated: whenever chaos is off, state.playing holds at most one session.
C2_Original == ~chaos => Sessions(playing) <= 1
\* C2 amended: a task that starts with chaos off never raises the number of
\* sessions above one; sessions above one are left over from chaos mode.
C2_NoGrowthWhenChaosOff ==
    [][~chaos => (Sessions(playing') <= 1 \/ Sessions(playing') <= Sessions(playing))]_vars
\* Chaos was switched off with two sessions in state.playing.
C2_Witness == ~chaos /\ Sessions(playing) = 2 /\ toastMsg = "Chaos: OFF"

\* C3: once a call's element plays and every earlier call has settled with
\* no event of its element queued, state.playing holds that element under
\* its id (a restart leaves exactly the second call's session).
C3_RestartYieldsOneSession ==
    \A e2 \in Calls :
        ( /\ elems[e2].pc = "done"
          /\ Sounding(elems[e2])
          /\ \A e1 \in Calls : e1 < e2 => elems[e1].pc = "done" /\ ~elems[e1].endedQ )
        => playing[elems[e2].id] = e2

\* C4: a task that runs stopAll() (the stop button, a list change) leaves
\* state.playing empty, and changes neither state.playing nor any element when
\* state.playing was empty.
C4_StopAllEmpties ==
    [][(StopClick \/ ListChange) =>
          /\ \A x \in Ids : ~isPlaying(playing', x)
          /\ (Tracked(playing) = {} => playing' = playing /\ elems' = elems)]_vars
\* The stop button has just stopped a looping session whose start was pending.
C4_Witness ==
    /\ toastMsg = "Stopped"
    /\ \A x \in Ids : ~isPlaying(playing, x)
    /\ \E e \in Calls : elems[e].promise = "rejecting" /\ elems[e].err = "AbortError"
                        /\ elems[e].loop /\ elems[e].time = 0

\* C5: when a call's start request is rejected (at once or later), the task
\* that handles it leaves the call's id out of state.playing, shows the
\* playback-blocked toast, and the call returns.
C5_RejectionTearsDown ==
    [][/\ \A e \in Calls :
            PlayRejected(e) =>
               /\ ~isPlaying(playing', elems[e].id)
               /\ toastMsg' = BlockedToast
               /\ elems'[e].pc = "done"
       /\ \A id \in Ids :
            (\E s \in {"suspended", "running"} :
                PlayClick(id, s, FALSE) /\ EnsureCtx(audioCtx, s) # "suspended") =>
               /\ ~isPlaying(playing', id)
               /\ toastMsg' = BlockedToast
               /\ elems'[ncalls'].pc = "done"
       /\ \A n \in Calls :
            ResumeSettled(n, FALSE) =>
               /\ ~isPlaying(playing', elems[n].id)
               /\ toastMsg' = BlockedToast
               /\ elems'[n].pc = "done"]_vars
\* A start request was rejected and handled: the toast shows, the call has
\* returned and its id is free, while the other id still plays.
C5_Witness ==
    /\ toastMsg = BlockedToast
    /\ \E e \in Calls : elems[e] = Collected
    /\ Sessions(playing) = 1

\* C6: the late completion (fulfilled or rejected) of a start request never
\* puts its element into state.playing, and adds no entry for its id.
C6_NoResurrection ==
    [][\A e \in Calls :
          ((PlayResolved(e) \/ PlayRejected(e)) /\ playing[elems[e].id] # e)
          => /\ playing'[elems[e].id] # e
             /\ (playing[elems[e].id] = NoElem => playing'[elems[e].id] = NoElem)]_vars
\* A session was stopped after playback began and before its play() promise
\* was delivered.
C6_Witness ==
    \E e \in Calls :
        /\ elems[e].pc = "await" /\ elems[e].promise = "resolving"
        /\ elems[e].paused /\ playing[elems[e].id] = NoElem

TrackedAs(pl, e) == \E id \in Ids : pl[id] = e

\* C7: the "ended" event of a non-looping element removes its id from
\* state.playing, and a looping session in state.playing leaves it only by
\* stopAll, by a playSound call, by the failure of its own start, or by a
\* reload.
C7_LoopingStays ==
    [][/\ \A e \in Calls :
            (EndedEvent(e) /\ ~elems[e].loop) => ~isPlaying(playing', elems[e].id)
       /\ \A e \in Calls :
            (TrackedAs(playing, e) /\ elems[e].loop /\ ~TrackedAs(playing', e))
            => (StopClick \/ ListChange \/ PlaySoundStep \/ PlayRejected(e) \/ Reload)]_vars

\* C8 as stated: a looping session keeps its loop flag when loop is switched
\* off.
C8_Original ==
    [][LoopClick => \A e \in Calls :
                       (TrackedAs(playing, e) /\ elems[e].loop) => elems'[e].loop]_vars
\* C8 amended: the loop toggle writes the new state.loop onto every element in
\* state.playing (so C stops looping: the "ended" event of an element whose
\* flag is false removes it), and an element created afterwards starts with
\* the flag state.loop has then.
C8_ToggleReachesSessions ==
    [][/\ LoopClick => \A e \in Calls : TrackedAs(playing, e) => elems'[e].loop = loop'
       /\ \A n \in Calls :
            (elems[n].pc \in {"unused", "resume"} /\ elems'[n].pc = "await")
            => elems'[n].loop = loop
       /\ \A e \in Calls :
            (EndedEvent(e) /\ TrackedAs(playing, e) /\ ~elems[e].loop)
            => ~TrackedAs(playing', e)]_vars
\* Loop was switched off while C played; C (call 1) has since ended with its
\* flag off, and D (call 2) plays with its flag off.
C8_Witness ==
    /\ toastMsg = "Loop: OFF" /\ ~loop /\ chaos
    /\ elems[1].pc = "done" /\ elems[1].ended /\ elems[1].endedQ /\ ~elems[1].loop
    /\ TrackedAs(playing, 1)
    /\ elems[2].pc = "await" /\ ~elems[2].loop /\ TrackedAs(playing, 2)

\* C9 as stated: a reload leaves chaos, loop and volumePercent as they were.
C9_Original ==
    [][Reload => chaos' = chaos /\ loop' = loop /\ volumePercent' = volumePercent]_vars
\* C9 amended: only the volume is persisted.  After a reload chaos and loop
\* are off, and volumePercent is the value it had before, clamped to [0,200]
\* (for values below 10^21).
C9_OnlyVolumeSurvives ==
    [][Reload =>
          /\ chaos' = FALSE
          /\ loop' = FALSE
          /\ (volumePercent < Huge => volumePercent' = Clamp200(volumePercent))]_vars
\* The page was reloaded after the slider gave 250.
C9_Witness ==
    /\ storage = <<"2", "5", "0">> /\ volumePercent = 200
    /\ audioCtx = "none" /\ ~chaos /\ ~loop

StoredBefore(s) ==
    \E r \in Reqs \ {s} :
        /\ reqs[r].kind = "dl"
        /\ reqs[r].path = reqs[s].path
        /\ reqs[r].result = "cached"

\* The step is taken by request r.
StepOf(r) == reqs'[r] # reqs[r]

\* C11: once a cacheSoundPreview(url) call has returned "cached", a later
\* cacheSoundPreview call for the same url finds the entry with its
\* cache.match, and from there returns "already" without a fetch; none of
\* its steps changes the stored entry.
C11_SecondCallIsAlready ==
    [][\A s \in Reqs :
          (reqs[s].kind = "dl" /\ StoredBefore(s) /\ StepOf(s)) =>
              /\ reqs[s].pc = "cacheSoundPreview:match" =>
                     /\ reqs'[s].pc = "cacheSoundPreview:resume"
                     /\ reqs'[s].hit # NoResp
                     /\ reqs'[s].hit = previews[reqs[s].path]
                     /\ previews' = previews
                     /\ nreqs' = nreqs
              /\ (reqs[s].pc = "cacheSoundPreview:resume" /\ reqs[s].hit # NoResp) =>
                     /\ reqs'[s].pc = "done"
                     /\ reqs'[s].result = "already"
                     /\ previews' = previews
                     /\ nreqs' = nreqs]_vars
C11_Witness ==
    \E r, s \in Reqs :
        /\ reqs[r].kind = "dl" /\ reqs[r].result = "cached"
        /\ reqs[s].kind = "dl" /\ reqs[s].result = "already"
        /\ previews[PathPreview] = AsEntry(reqs[r].out)

\* C12: when cacheFirst has returned the network's successful answer to a
\* request that found no entry, the entry is in the preview cache.
C12_StoredBeforeReturn ==
    \A r \in Reqs :
        (reqs[r].kind = "cf" /\ reqs[r].pc = "done" /\ reqs[r].out.src = "net"
            /\ Ok(reqs[r].out))
        => Lookup(previews, reqs[r].path) # NoResp

\* C13: staleWhileRevalidate gives the cached copy when there is one,
\* whatever the network then does; a successful background fetch queues
\* the write of the fresh copy, and that write replaces the entry.
C13_StaleWhileRevalidate ==
    [][/\ \A r \in Reqs :
            (reqs[r].kind = "swr" /\ StepOf(r)) =>
               /\ (reqs[r].pc = "sw:resume" /\ reqs[r].hit # NoResp) =>
                      /\ reqs'[r].out = reqs[r].hit
                      /\ reqs'[r].out.src = "cache"
               /\ reqs[r].pc = "bg" =>
                      /\ reqs'[r].out = reqs[r].out
                      /\ SwNet(r, "200") =>
                            [tier |-> "static", path |-> reqs[r].path,
                             res |-> NetResp(200, r)] \in puts'
       /\ \A p \in puts :
            (puts' = puts \ {p} /\ p.tier = "static" /\ p.res.status = 200) =>
               Lookup(statics', p.path) = AsEntry(p.res)]_vars
C13_Witness ==
    \E r, s \in Reqs :
        /\ reqs[r].kind = "swr" /\ reqs[r].pc = "done"
        /\ reqs[r].out = AsEntry(NetResp(200, 0))
        /\ reqs[s].kind = "swr" /\ reqs[s].out = AsEntry(NetResp(200, r))

\* C14: every request is answered by the strategy of its class: previews
\* of this origin by cacheFirst, the static assets of this origin (the
\* root, index.html, styles.css, app.js) by staleWhileRevalidate, all
\* others not by the worker.
C14_RoutedByClass ==
    \A r \in Reqs :
        reqs[r].kind \in {"cf", "swr", "pass"} =>
            reqs[r].kind =
                IF ~reqs[r].sameOrigin THEN "pass"
                ELSE IF reqs[r].path \in PreviewKeys THEN "cf"
                ELSE IF reqs[r].path \in StaticKeys THEN "swr"
                ELSE "pass"

\* C15: an entry of the preview cache stays, and no request starts a
\* network fetch for a url whose entry is present.
C15_PresentIsTerminal ==
    [][\A k \in PreviewKeys :
          previews[k] # NoResp =>
              /\ previews'[k] # NoResp
              /\ \A r \in Reqs :
                    (reqs'[r].path = k /\ reqs'[r].pc = "fetch")
                        => reqs[r].pc = "fetch"]_vars

\* Every entry of a cache.
Entries(tier) == { tier[k] : k \in DOMAIN tier } \ {NoResp}

\* C19: only responses with a success status are written or queued for
\* writing, so every cache entry has a success status; a download click
\* whose fetch gives a non-success response ends with the error and
\* writes nothing.
C19_OnlySuccessStored ==
    [][/\ \A e \in Entries(previews') \cup Entries(statics') : Ok(e)
       /\ \A p \in puts' : Ok(p.res)
       /\ \A r \in Reqs :
            (reqs[r].kind = "dl" /\ StepOf(r)
                /\ reqs'[r].out # reqs[r].out /\ ~Ok(reqs'[r].out)) =>
               /\ reqs'[r].result = "threw"
               /\ reqs'[r].pc = "done"
               /\ previews' = previews /\ statics' = statics /\ puts' = puts
       /\ \A r \in Reqs :
            (reqs[r].kind \in {"cf", "swr"} /\ StepOf(r)
                /\ reqs'[r].out # reqs[r].out /\ ~Ok(reqs'[r].out)) =>
               previews' = previews /\ statics' = statics /\ puts' = puts]_vars
C19_Witness ==
    \E r, c \in Reqs :
        /\ reqs[r].kind = "dl" /\ reqs[r].result = "threw"
        /\ reqs[r].out = NetResp(404, r)
        /\ reqs[c].kind = "cf" /\ reqs[c].pc = "done"
        /\ reqs[c].out = NetResp(404, c)
        /\ Entries(previews) = {} /\ puts = {}

\* C20: cacheFirst and staleWhileRevalidate answer with the synthetic 503
\* response, and write nothing, when cache.match gave no copy and the
\* fetch fails; they give that response in no other case.
C20_UnavailableWhenOfflineUncached ==
    [][\A r \in Reqs :
          (reqs[r].kind \in {"cf", "swr"} /\ StepOf(r)) =>
             /\ (reqs[r].pc = "fetch" /\ SwNet(r, "fail")) =>
                    /\ reqs'[r].out = Unavailable
                    /\ reqs'[r].pc = "done"
                    /\ previews' = previews /\ statics' = statics
                    /\ puts' = puts
             /\ (reqs'[r].out = Unavailable /\ reqs[r].out # Unavailable) =>
                    /\ reqs[r].hit = NoResp
                    /\ reqs[r].pc = "fetch"
                    /\ SwNet(r, "fail")]_vars
C20_Witness ==
    \E c, w \in Reqs :
        /\ reqs[c].kind = "cf" /\ reqs[c].out = Unavailable
        /\ reqs[w].kind = "swr" /\ reqs[w].out = Unavailable
        /\ Entries(previews) = {} /\ Entries(statics) = {} /\ puts = {}

\* -------------------------------------------- loop and volume claims
\* C16: every element in state.playing has its loop flag equal to
\* state.loop.
C16_LoopMirrored ==
    \A e \in Tracked(playing) : elems[e].loop = loop
C16_Witness ==
    /\ loop /\ chaos
    /\ toastMsg = "Loop: ON"
    /\ Sessions(playing) = 2
    /\ \A e \in Tracked(playing) : Sounding(elems[e]) /\ elems[e].loop

\* C17: state.volumePercent is an integer from 0 to 200.
C17_VolumeInRange == volumePercent \in 0..200

\* C18: once the gain stage exists its value is state.volumePercent / 100
\* (the model keeps the value in percent), and every element in
\* state.playing is routed through it.
C18_SharedGain ==
    /\ gain # -1 => gain = volumePercent
    /\ \A e \in Tracked(playing) :
          elems[e].routed /\ audioCtx # "none" /\ gain = volumePercent
C18_Witness ==
    /\ ~chaos
    /\ volumePercent = 150 /\ gain = 150
    /\ playing["A"] = NoElem /\ playing["B"] = 2
    /\ elems[1].id # "B" /\ ~Sounding(elems[1])
    /\ Sounding(elems[2]) /\ elems[2].routed

\* ------------------------------------------------- late callback claims
\* C21: every element playSound has created and started that is not
\* paused, ended or rejected is the value state.playing holds under its
\* id (so that stopAll reaches it).
C21_NoUntrackedPlayback ==
    \A e \in Calls :
        ( /\ elems[e].pc \in {"await", "done"}
          /\ elems[e].promise \in {"pending", "resolving", "fulfilled"}
          /\ ~elems[e].paused
          /\ ~elems[e].ended )
        => playing[elems[e].id] = e

\* C22: when the stop button was pressed while the page's first playSound
\* call waited for audioCtx.resume(), that call, once it has completed, has
\* left no element in state.playing and none sounding.  (The toast still
\* reads "Stopped" and no other call was made since the page loaded, so
\* the call that waited is call 1.)
C22_StopCancelsSuspendedCall ==
    (toastMsg = "Stopped" /\ ncalls = 1 /\ elems[1].pc = "done")
    => (~TrackedAs(playing, 1) /\ ~Sounding(elems[1]))
====
